---------------------------- MODULE Spec2Model ----------------------------
(***************************************************************************)
(* Reachability-analysis path parameterization (toppra).                   *)
(*                                                                         *)
(* ReachabilityAlgorithm (the engine) drives a SolverWrapper (the stage    *)
(* oracle) through three computations: the feasible-set sweep, the         *)
(* backward controllable-set recursion and the forward pass.               *)
(*                                                                         *)
(* Numbers.  Squared velocities x, grid positions s and velocities sd are  *)
(* integers; the tolerance SMALL is one unit of x.  Accelerations u are    *)
(* held in units of 1/UDen, so that x + 2*delta*u is exact for every       *)
(* vertex of a stage problem.  Cost coefficients are held in units of      *)
(* 1/CostScale, the tie-break coefficient 1e-9 being one unit.  The float  *)
(* NaN and Python's None are two integers outside every value's range.     *)
(***************************************************************************)
EXTENDS Integers, Sequences, FiniteSets, TLC

\* ------------------------------------------------------------- bounds
\* Grid samples and path-interval bounds range over 0..MaxS.
MaxS == 3
\* A grid has at most MaxPts samples (N <= MaxPts - 1 stages).
MaxPts == 4
\* Velocities sd handed to the entry points range over -1..MaxSd.
MaxSd == 3
\* A constraint list holds at most MaxConstraints constraints.
MaxConstraints == 2

\* ---------------------------------------------------------- constants
NaN == -1000000
None == -2000000
LARGE == 1000
SMALL == 1
CostScale == 1000

RECURSIVE Fact(_)
Fact(n) == IF n <= 1 THEN 1 ELSE n * Fact(n - 1)
\* Every stage step delta divides Fact(MaxS), so u = w / (2*delta) is a
\* whole number of 1/UDen units.
UDen == 2 * Fact(MaxS)

\* ------------------------------------------------- float / Python helpers
IsNaN(a) == a = NaN

\* IEEE comparison: false as soon as one side is NaN.
Lt(a, b) == ~IsNaN(a) /\ ~IsNaN(b) /\ a < b

\* Python's max(a, b) and min(a, b): the first argument is kept unless the
\* second compares strictly greater (smaller).
PyMax(a, b) == IF Lt(a, b) THEN b ELSE a
PyMin(a, b) == IF Lt(b, a) THEN b ELSE a

FAdd(a, b) == IF IsNaN(a) \/ IsNaN(b) THEN NaN ELSE a + b

\* 2 * delta * u for u in units of 1/UDen; the result is in units of x.
TwoDeltaU(delta, u) == IF IsNaN(u) THEN NaN ELSE (2 * delta * u) \div UDen

SqrtScale == 100
\* np.sqrt to two decimals (in units of 1/SqrtScale); NaN for NaN and for a
\* negative argument.
Sqrt(x) ==
  IF IsNaN(x) \/ x < 0 THEN NaN
  ELSE CHOOSE r \in 0..(SqrtScale * (x + 1)) :
         r * r <= x * SqrtScale * SqrtScale /\ x * SqrtScale * SqrtScale < (r + 1) * (r + 1)

Last(s) == s[Len(s)]

\* np.isnan(a).any() over an interval (a pair) and over an array of pairs.
AnyNaN(iv) == IsNaN(iv[1]) \/ IsNaN(iv[2])
AnyNaNArr(A) == \E k \in DOMAIN A : AnyNaN(A[k])

SeqsUpTo(S, n) == UNION {[1..k -> S] : k \in 0..n}

\* ------------------------------------------------------------ constraints
ConstraintTypes == {"CanonicalLinear", "CanonicalConic"}

\* A constraint: its type and its declared number of extra variables.
Constraints ==
  {[type |-> "CanonicalLinear", extra |-> 0], [type |-> "CanonicalConic", extra |-> 1]}

\* The per-stage parameters a constraint list yields at one grid point: the
\* stage's admissible box xlo <= x <= xhi, ulo <= u <= uhi.
StageBoxes ==
  {[xlo |-> 0, xhi |-> 4, ulo |-> -1, uhi |-> 1],
   [xlo |-> -2, xhi |-> -1, ulo |-> -1, uhi |-> 1]}

\* --------------------------------------------------------- SolverWrapper
NoSolver == [kind |-> "none", path_discretization |-> <<>>, N |-> -1,
             deltas |-> <<>>, params |-> <<>>, nV |-> 0]

\* self.deltas = path_discretization[1:] - path_discretization[:-1]
Deltas(pd) == [k \in 1..(Len(pd) - 1) |-> pd[k + 1] - pd[k]]

\* Faulty variant: repeated samples pass.
IncreasingMut(pd) == \A k \in 1..(Len(pd) - 1) : pd[k + 1] >= pd[k]
\* for i in range(self.N): assert path_discretization[i + 1] > path_discretization[i]
Increasing(pd) == \A k \in 1..(Len(pd) - 1) : pd[k + 1] > pd[k]

\* assert path.get_path_interval()[0] == path_discretization[0], and [1] == [-1]
EndsMatch(interval, pd) == interval[1] = pd[1] /\ interval[2] = Last(pd)

RECURSIVE SumExtra(_)
SumExtra(cl) == IF cl = <<>> THEN 0 ELSE cl[1].extra + SumExtra(Tail(cl))
\* self.nV = 2 + sum([c.get_no_extra_vars() for c in self.constraints])
NoVars(cl) == 2 + SumExtra(cl)

\* SolverWrapper.__init__: the outcome ("ok" or the error raised), whether the
\* constraints were asked for their parameters, and the object built.  prm
\* is what the constraints return for this grid when they are asked.
SolverWrapperInit(kind, cl, interval, pd, prm) ==
  IF Len(pd) = 0
    THEN [status |-> "IndexError", asked |-> FALSE, obj |-> NoSolver]
  ELSE IF ~EndsMatch(interval, pd) \/ ~Increasing(pd)
    THEN [status |-> "AssertionError", asked |-> FALSE, obj |-> NoSolver]
  ELSE [status |-> "ok", asked |-> TRUE,
        obj |-> [kind |-> kind, path_discretization |-> pd, N |-> Len(pd) - 1,
                 deltas |-> Deltas(pd), params |-> prm, nV |-> NoVars(cl)]]


\* -------------------------------------------- ReachabilityAlgorithm.__init__
NotSupplied == "<None>"
SolverNames == {"cvxpy", "qpOASES", "hotqpOASES", "ecos", "ECOS", "mosek"}

\* str.lower() on the solver names in use.
Lower(name) ==
  CASE name = "qpOASES" -> "qpoases"
    [] name = "hotqpOASES" -> "hotqpoases"
    [] name = "ECOS" -> "ecos"
    [] OTHER -> name

ConicCapable == {"cvxpy", "ecos"}
KnownSolvers == {"cvxpy", "qpoases", "ecos", "hotqpoases"}

\* has_conic: some constraint of the list is CanonicalConic.
HasConic(cl) == \E k \in 1..Len(cl) : cl[k].type = "CanonicalConic"

\* The automatic choice when no name is supplied.
AutoSolver(cl) == IF HasConic(cl) THEN "ecos" ELSE "qpOASES"

\* Faulty variant: the conic case is not told apart.
NameAcceptedMut(cl, name) == Lower(name) \in KnownSolvers
\* The assertions on a supplied name.
NameAccepted(cl, name) ==
  IF HasConic(cl) THEN Lower(name) \in ConicCapable ELSE Lower(name) \in KnownSolvers

\* ReachabilityAlgorithm.__init__: the outcome, the wrapper class whose
\* constructor was entered ("none" when none was), whether the constraints
\* were asked for their parameters, and the solver wrapper attached.
ReachabilityAlgorithmInit(cl, interval, grid, name, prm) ==
  LET chosen == IF name = NotSupplied THEN AutoSolver(cl) ELSE name
      built == SolverWrapperInit(Lower(chosen), cl, interval, grid, prm)
  IN  IF name # NotSupplied /\ ~NameAccepted(cl, name)
        THEN [status |-> "AssertionError", entered |-> "none", asked |-> FALSE,
              solver_wrapper |-> NoSolver]
      ELSE IF Lower(chosen) \notin KnownSolvers
        THEN [status |-> "NotImplementedError", entered |-> "none", asked |-> FALSE,
              solver_wrapper |-> NoSolver]
      ELSE [status |-> built.status, entered |-> Lower(chosen), asked |-> built.asked,
            solver_wrapper |-> built.obj]

\* ------------------------------------------------------------ stage oracle
\* The auxiliary variables' optimal values are not determined by anything
\* the engine sees: each is one of AuxValues.
AuxValues == {0, 1}

\* A bound of a stage solve holds v: None is "unbounded", a NaN bound admits
\* nothing.
Within(v, lo, hi) ==
  /\ ~IsNaN(lo) /\ ~IsNaN(hi)
  /\ (lo = None \/ lo <= v)
  /\ (hi = None \/ v <= hi)

\* The vertices of stage i's own constraints: u (in 1/UDen), x, and the
\* next state x + 2*delta_i*u.  At i = N there is no delta and no next state.
StagePoints(sw, i) ==
  LET b == sw.params[i + 1]
  IN  IF i < sw.N
        THEN LET d == sw.deltas[i + 1]
             IN  {[u |-> (w * UDen) \div (2 * d), x |-> x, xn |-> x + w] :
                    w \in (2 * d * b.ulo)..(2 * d * b.uhi), x \in b.xlo..b.xhi}
        ELSE {[u |-> u * UDen, x |-> x, xn |-> x] : u \in b.ulo..b.uhi, x \in b.xlo..b.xhi}

FeasiblePoints(sw, i, x_min, x_max, x_next_min, x_next_max) ==
  {p \in StagePoints(sw, i) :
     /\ Within(p.x, x_min, x_max)
     /\ (i = sw.N \/ Within(p.xn, x_next_min, x_next_max))}

\* g . [u, x] for a cost vector g = <<g_u, g_x>> (the auxiliary variables'
\* coefficients are zero), times UDen.
Cost(g, p) == g[1] * p.u + g[2] * UDen * p.x

NaNVec(nV) == [u |-> NaN, x |-> NaN, v |-> [k \in 1..(nV - 2) |-> NaN]]

\* solve_stagewise_optim: what a call may return.  The optimal [u, x, v]
\* when the stage problem is feasible and the method converges; the NaN
\* vector when it is infeasible, and whenever the method fails.
solve_stagewise_optim(sw, i, g, x_min, x_max, x_next_min, x_next_max) ==
  LET F == FeasiblePoints(sw, i, x_min, x_max, x_next_min, x_next_max)
      opt == CHOOSE p \in F : \A q \in F : Cost(g, p) <= Cost(g, q)
  IN  {NaNVec(sw.nV)} \cup
      (IF F = {} THEN {}
       ELSE {[u |-> opt.u, x |-> opt.x, v |-> vv] : vv \in [1..(sw.nV - 2) -> AuxValues]})

\* Sessions: setup_solver opens one, close_solver closes one.
setup_solver(s) == s + 1
\* Faulty variant: the session is left open.
close_solverMut(s) == s
close_solver(s) == s - 1

\* ------------------------------------------------------------------ state
VARIABLES
  constraint_list,  \* __init__'s arguments
  path_interval,
  gridpoints,
  solver_name,
  ctor,             \* how construction ended: [status, entered, asked]
  solver_wrapper,   \* self.solver_wrapper: kind, path_discretization, N, deltas, params, nV
  session,          \* oracle sessions open (setup_solver minus close_solver)
  pc,               \* where the engine stands
  entry,            \* the entry point the caller invoked
  args,             \* its arguments: sdmin, sdmax, sd_start, sd_end
  i,                \* the loop index
  X,                \* compute_feasible_sets' array
  K,                \* compute_controllable_sets' array
  x_upper,          \* _one_step's first result
  xs, us, v_vec,    \* compute_parameterization's arrays
  sd_vec, sdd_vec,  \* the profile returned
  ret,              \* what the entry point returned, or the error it raised
  called_before,    \* an entry point had been invoked before the current one
  solve_log         \* the stage solves issued since the entry point was invoked

ctorVars == <<constraint_list, path_interval, gridpoints, solver_name, ctor, solver_wrapper>>
runVars == <<session, pc, entry, args, i, X, K, x_upper, xs, us, v_vec, sd_vec, sdd_vec,
             ret, called_before, solve_log>>
vars == <<ctorVars, runVars>>

N == solver_wrapper.N
Stages == 0..N

NoArgs == [sdmin |-> None, sdmax |-> None, sd_start |-> None, sd_end |-> None]
Zeros2 == [k \in Stages |-> <<0, 0>>]
Empty == [k \in {} |-> 0]

\* The engine's locals before any entry point has run.
Fresh ==
  /\ session = 0 /\ pc = "idle" /\ entry = "none" /\ args = NoArgs /\ i = 0
  /\ X = Empty /\ K = Empty /\ x_upper = 0
  /\ xs = Empty /\ us = Empty /\ v_vec = Empty /\ sd_vec = Empty /\ sdd_vec = Empty
  /\ ret = "none" /\ called_before = FALSE /\ solve_log = <<>>

\* --------------------------------------------------------- construction
GridInputs == SeqsUpTo(0..MaxS, MaxPts)
IntervalInputs == (0..MaxS) \X (0..MaxS)
ConstraintListInputs == SeqsUpTo(Constraints, MaxConstraints)
NameInputs == SolverNames \cup {NotSupplied}

\* The constraint list and the path intervals the engine's runs are explored
\* with: a linear and a conic constraint (nV = 3), paths that start at 0.
EngineConstraintLists ==
  {<<[type |-> "CanonicalLinear", extra |-> 0], [type |-> "CanonicalConic", extra |-> 1]>>}
EngineIntervals == {0} \X (0..MaxS)

\* The full grid of MaxS + 1 samples, and the same grid with two samples swapped.
FullGrid == [k \in 1..(MaxS + 1) |-> k - 1]
SwappedGrid == [FullGrid EXCEPT ![1] = 1, ![2] = 0]

\* The arguments construction is explored with: every grid and interval
\* under the engine's constraint lists with no name supplied, and every
\* constraint list and name over a good and a bad grid.
CtorInputs ==
  (EngineConstraintLists \X IntervalInputs \X GridInputs \X {NotSupplied})
  \cup (ConstraintListInputs \X {<<0, MaxS>>} \X {FullGrid, SwappedGrid} \X NameInputs)

\* What the constraints return for the grid: parameters for each sample.
ParamsFor(g) == [1..Len(g) -> StageBoxes]

InitCtor ==
  /\ constraint_list = <<>> /\ path_interval = <<0, 0>> /\ gridpoints = <<>>
  /\ solver_name = NotSupplied
  /\ ctor = [status |-> "new", entered |-> "none", asked |-> FALSE]
  /\ solver_wrapper = NoSolver
  /\ Fresh

\* ReachabilityAlgorithm(constraint_list, path, gridpoints, solver_wrapper)
Construct ==
  /\ ctor.status = "new"
  /\ \E inp \in CtorInputs :
       LET asked == ReachabilityAlgorithmInit(inp[1], inp[2], inp[3], inp[4], <<>>).asked
       IN  \E prm \in (IF asked THEN ParamsFor(inp[3]) ELSE {<<>>}) :
             LET r == ReachabilityAlgorithmInit(inp[1], inp[2], inp[3], inp[4], prm)
             IN  /\ constraint_list' = inp[1] /\ path_interval' = inp[2]
                 /\ gridpoints' = inp[3] /\ solver_name' = inp[4]
                 /\ ctor' = [status |-> r.status, entered |-> r.entered, asked |-> r.asked]
                 /\ solver_wrapper' = r.solver_wrapper
  /\ UNCHANGED runVars

NextCtor == Construct
SpecCtor == InitCtor /\ [][NextCtor]_vars

\* ------------------------------------------------------- the engine's Init
\* An engine whose construction succeeded, with no name supplied.
Init ==
  /\ \E cl \in EngineConstraintLists, iv \in EngineIntervals, g \in GridInputs :
       \E prm \in ParamsFor(g) :
         LET r == ReachabilityAlgorithmInit(cl, iv, g, NotSupplied, prm)
         IN  /\ r.status = "ok"
             /\ constraint_list = cl /\ path_interval = iv /\ gridpoints = g
             /\ solver_name = NotSupplied
             /\ ctor = [status |-> r.status, entered |-> r.entered, asked |-> r.asked]
             /\ solver_wrapper = r.solver_wrapper
  /\ Fresh

\* -------------------------------------------------------------- the engine
SdInputs == -1..MaxSd

\* v ** 2
Sq(v) == v * v

\* One stage solve as the log keeps it: its arguments and result[1].
Call(stage, H, g, x_min, x_max, x_next_min, x_next_max, r) ==
  [i |-> stage, H |-> H, g |-> g, x_min |-> x_min, x_max |-> x_max,
   x_next_min |-> x_next_min, x_next_max |-> x_next_max, x |-> r.x]

\* g_lower of compute_feasible_sets (least x first) and g_upper of _one_step
\* (greatest x first), as <<g_u, g_x>>.
\* Faulty variant: the sign of the x coefficient is flipped.
g_lowerMut == <<1, -CostScale>>
g_lower == <<1, CostScale>>
g_upper == <<1, -CostScale>>
Neg(g) == <<-g[1], -g[2]>>

\* Faulty variant: no clamp.
ClampLowMut(iv) == iv
\* if K[i, 0] < 0: K[i, 0] = 0
ClampLow(iv) == IF Lt(iv[1], 0) THEN <<0, iv[2]>> ELSE iv

\* What every entry point starts from: the previous call's locals are gone.
Enter(name, a) ==
  /\ pc = "idle" /\ ctor.status = "ok"
  /\ entry' = name /\ args' = a /\ solve_log' = <<>> /\ ret' = "none"
  /\ sd_vec' = Empty /\ sdd_vec' = Empty
  /\ called_before' = (entry # "none")

\* ---- compute_feasible_sets
CallFeasibleSets ==
  /\ Enter("compute_feasible_sets", NoArgs)
  /\ X' = Zeros2
  /\ session' = setup_solver(session)
  /\ i' = 0 /\ pc' = "fs_min"
  /\ K' = Empty /\ x_upper' = 0 /\ xs' = Empty /\ us' = Empty /\ v_vec' = Empty
  /\ UNCHANGED ctorVars

FeasibleMin ==
  /\ pc = "fs_min"
  /\ \E r \in solve_stagewise_optim(solver_wrapper, i, g_lower, -LARGE, LARGE, -LARGE, LARGE) :
       /\ X' = [X EXCEPT ![i] = <<r.x, @[2]>>]
       /\ solve_log' = Append(solve_log, Call(i, "zeros", g_lower, -LARGE, LARGE, -LARGE, LARGE, r))
  /\ pc' = "fs_max"
  /\ UNCHANGED <<ctorVars, called_before, session, entry, args, i, K, x_upper, xs, us, v_vec, sd_vec, sdd_vec, ret>>

FeasibleMax ==
  /\ pc = "fs_max"
  /\ \E r \in solve_stagewise_optim(solver_wrapper, i, Neg(g_lower), -LARGE, LARGE, -LARGE, LARGE) :
       /\ X' = [X EXCEPT ![i] = <<@[1], r.x>>]
       /\ solve_log' = Append(solve_log,
                              Call(i, "zeros", Neg(g_lower), -LARGE, LARGE, -LARGE, LARGE, r))
  /\ i' = i + 1
  /\ pc' = IF i + 1 <= N THEN "fs_min" ELSE "fs_close"
  /\ UNCHANGED <<ctorVars, called_before, session, entry, args, K, x_upper, xs, us, v_vec, sd_vec, sdd_vec, ret>>

FeasibleReturn ==
  /\ pc = "fs_close"
  /\ session' = close_solver(session)
  /\ X' = [k \in Stages |-> ClampLow(X[k])]
  /\ ret' = "X" /\ pc' = "idle"
  /\ UNCHANGED <<ctorVars, called_before, entry, args, i, K, x_upper, xs, us, v_vec, sd_vec, sdd_vec, solve_log>>

\* ---- compute_controllable_sets
\* assert sdmin <= sdmax and 0 <= sdmin
ArgsOk(sdmin, sdmax) == sdmin <= sdmax /\ 0 <= sdmin

\* Faulty variant: the bounds are not squared.
TerminalSetMut(sdmin, sdmax) == <<sdmin, sdmax>>
\* K[self._N] = [sdmin ** 2, sdmax ** 2]
TerminalSet(sdmin, sdmax) == <<Sq(sdmin), Sq(sdmax)>>

\* compute_controllable_sets up to its loop.
ControllableBegin(sdmin, sdmax) ==
  /\ K' = [Zeros2 EXCEPT ![N] = TerminalSet(sdmin, sdmax)]
  /\ session' = setup_solver(session)
  /\ i' = N - 1
  /\ pc' = IF N - 1 >= 0 THEN "cs_step" ELSE "cs_close"
  /\ X' = Empty /\ x_upper' = 0 /\ xs' = Empty /\ us' = Empty /\ v_vec' = Empty
  /\ UNCHANGED ctorVars

\* An entry point's assertion fails: AssertionError, nothing else done.
Rejected ==
  /\ ret' = "AssertionError" /\ pc' = "idle"
  /\ X' = Empty /\ K' = Empty /\ x_upper' = 0 /\ xs' = Empty /\ us' = Empty /\ v_vec' = Empty
  /\ UNCHANGED <<ctorVars, session, i>>

CallControllableSets ==
  \E sdmin \in SdInputs, sdmax \in SdInputs :
    /\ Enter("compute_controllable_sets", [NoArgs EXCEPT !.sdmin = sdmin, !.sdmax = sdmax])
    /\ IF ArgsOk(sdmin, sdmax) THEN ControllableBegin(sdmin, sdmax) ELSE Rejected

\* Faulty variant: K_next is not tested for NaN.
OneStepEmptyMut(stage, K_next) == stage < 0 \/ stage > N
\* if np.isnan(K_next).any() or i < 0 or i > self._N
OneStepEmpty(stage, K_next) == AnyNaN(K_next) \/ stage < 0 \/ stage > N

\* Faulty variant: res is left at its zeros.
EmptySetMut == <<0, 0>>
\* res[:] = np.nan
EmptySet == <<NaN, NaN>>

NextBackward == IF i - 1 >= 0 THEN "cs_step" ELSE "cs_close"

\* _one_step returns the empty set without a solve; then the loop's clamp.
OneStepPropagate ==
  /\ pc = "cs_step"
  /\ OneStepEmpty(i, K[i + 1])
  /\ K' = [K EXCEPT ![i] = ClampLow(EmptySet)]
  /\ i' = i - 1 /\ pc' = NextBackward
  /\ UNCHANGED <<ctorVars, called_before, session, entry, args, X, x_upper, xs, us, v_vec, sd_vec, sdd_vec,
                 ret, solve_log>>

\* _one_step's first solve.
OneStepUpper ==
  /\ pc = "cs_step"
  /\ ~OneStepEmpty(i, K[i + 1])
  /\ \E r \in solve_stagewise_optim(solver_wrapper, i, g_upper, None, None,
                                    K[i + 1][1], K[i + 1][2]) :
       /\ x_upper' = r.x
       /\ solve_log' = Append(solve_log,
                              Call(i, "None", g_upper, None, None, K[i + 1][1], K[i + 1][2], r))
  /\ pc' = "cs_lower"
  /\ UNCHANGED <<ctorVars, called_before, session, entry, args, i, X, K, xs, us, v_vec, sd_vec, sdd_vec, ret>>

\* _one_step's second solve and its result; then the loop's clamp.
OneStepLower ==
  /\ pc = "cs_lower"
  /\ \E r \in solve_stagewise_optim(solver_wrapper, i, Neg(g_upper), None, None,
                                    K[i + 1][1], K[i + 1][2]) :
       /\ K' = [K EXCEPT ![i] = ClampLow(<<r.x, x_upper>>)]
       /\ solve_log' = Append(solve_log,
                              Call(i, "None", Neg(g_upper), None, None,
                                   K[i + 1][1], K[i + 1][2], r))
  /\ i' = i - 1 /\ pc' = NextBackward
  /\ UNCHANGED <<ctorVars, called_before, session, entry, args, X, x_upper, xs, us, v_vec, sd_vec, sdd_vec, ret>>

\* compute_controllable_sets after its loop: back to the caller, or on into
\* compute_parameterization.
ControllableReturn ==
  /\ pc = "cs_close"
  /\ session' = close_solver(session)
  /\ IF entry = "compute_controllable_sets"
       THEN ret' = "K" /\ pc' = "idle"
       ELSE ret' = ret /\ pc' = "cp_check"
  /\ UNCHANGED <<ctorVars, called_before, entry, args, i, X, K, x_upper, xs, us, v_vec, sd_vec, sdd_vec,
                 solve_log>>

\* ---- compute_parameterization
\* assert sd_end >= 0 and sd_start >= 0
ParamArgsOk(sd_start, sd_end) == sd_end >= 0 /\ sd_start >= 0

CallParameterization ==
  \E sd_start \in SdInputs, sd_end \in SdInputs :
    /\ Enter("compute_parameterization",
             [NoArgs EXCEPT !.sd_start = sd_start, !.sd_end = sd_end])
    /\ IF ParamArgsOk(sd_start, sd_end) /\ ArgsOk(sd_end, sd_end)
         THEN ControllableBegin(sd_end, sd_end)
         ELSE Rejected

x_start == Sq(args.sd_start)

\* Faulty variant: the lower test's tolerance is on the wrong side.
NotControllableTightMut(x, K0) == Lt(FAdd(x, -SMALL), K0[1]) \/ Lt(FAdd(K0[2], SMALL), x)
\* Faulty variant: only the lower test.
NotControllableMut(x, K0) == Lt(FAdd(x, SMALL), K0[1])
\* if x_start + SMALL < K[0, 0] or K[0, 1] + SMALL < x_start
NotControllable(x, K0) == Lt(FAdd(x, SMALL), K0[1]) \/ Lt(FAdd(K0[2], SMALL), x)

\* Faulty variant: the start velocity is not tested.
ReportsInfeasibleMut(KK, x) == AnyNaNArr(KK)
\* The two tests that make compute_parameterization return (None, None, None).
ReportsInfeasible(KK, x) == AnyNaNArr(KK) \/ NotControllable(x, KK[0])

\* Faulty variant: the forward session is opened before the tests.
ParameterizationInfeasibleMut ==
  /\ pc = "cp_check"
  /\ ReportsInfeasible(K, x_start)
  /\ session' = setup_solver(session)
  /\ ret' = "infeasible" /\ pc' = "idle"
  /\ UNCHANGED <<ctorVars, called_before, entry, args, i, X, K, x_upper, xs, us, v_vec, sd_vec,
                 sdd_vec, solve_log>>

\* return None, None, None
ParameterizationInfeasible ==
  /\ pc = "cp_check"
  /\ ReportsInfeasible(K, x_start)
  /\ ret' = "infeasible" /\ pc' = "idle"
  /\ UNCHANGED <<ctorVars, called_before, session, entry, args, i, X, K, x_upper, xs, us, v_vec, sd_vec,
                 sdd_vec, solve_log>>

\* Faulty variant: the forward loop runs one stage too far.
NextForwardMut == IF i + 1 <= N THEN "cp_forward" ELSE "cp_close"
\* for i in range(self._N)
NextForward == IF i + 1 <= N - 1 THEN "cp_forward" ELSE "cp_close"

\* Faulty variant: the oracle's deltas, handed out by get_deltas without a
\* copy, are doubled in place.
ParameterizationForwardBeginMut ==
  /\ pc = "cp_check"
  /\ ~ReportsInfeasible(K, x_start)
  /\ xs' = [k \in Stages |-> IF k = 0 THEN x_start ELSE 0]
  /\ us' = [k \in 0..(N - 1) |-> 0]
  /\ v_vec' = [k \in 0..(N - 1) |-> [j \in 1..(solver_wrapper.nV - 2) |-> 0]]
  /\ session' = setup_solver(session)
  /\ i' = 0
  /\ pc' = IF 0 <= N - 1 THEN "cp_forward" ELSE "cp_close"
  /\ solver_wrapper' = [solver_wrapper EXCEPT !.deltas = [k \in DOMAIN @ |-> 2 * @[k]]]
  /\ UNCHANGED <<constraint_list, path_interval, gridpoints, solver_name, ctor>>
  /\ UNCHANGED <<called_before, entry, args, X, K, x_upper, sd_vec, sdd_vec, ret, solve_log>>

ParameterizationForwardBegin ==
  /\ pc = "cp_check"
  /\ ~ReportsInfeasible(K, x_start)
  /\ xs' = [k \in Stages |-> IF k = 0 THEN x_start ELSE 0]
  /\ us' = [k \in 0..(N - 1) |-> 0]
  /\ v_vec' = [k \in 0..(N - 1) |-> [j \in 1..(solver_wrapper.nV - 2) |-> 0]]
  /\ session' = setup_solver(session)
  /\ i' = 0
  /\ pc' = IF 0 <= N - 1 THEN "cp_forward" ELSE "cp_close"
  /\ UNCHANGED <<ctorVars, called_before, entry, args, X, K, x_upper, sd_vec, sdd_vec, ret, solve_log>>

\* The forward step's cost <<g_u, g_x>>: the largest admissible u.
g_forward == <<-CostScale, 0>>

\* _forward_step(i, x, K_next): one stage solve with x pinned and x_next in
\* K_next; its result is handed back as the oracle returned it.
ForwardStep(stage, x, K_next) ==
  solve_stagewise_optim(solver_wrapper, stage, g_forward, x, x, K_next[1], K_next[2])

\* optim_res[0] is None
IsNone(a) == a = None

\* A float array's entry set to None reads back as NaN.
StoredNone == NaN

\* xs[i + 1] when the step is taken as solved.
NextState(x, delta, u, K_next) ==
  PyMin(K_next[2], PyMax(K_next[1], FAdd(x, TwoDeltaU(delta, u))))

ParameterizationForward ==
  /\ pc = "cp_forward"
  /\ \E optim_res \in ForwardStep(i, xs[i], K[i + 1]) :
       /\ IF IsNone(optim_res.u)
            THEN /\ us' = [us EXCEPT ![i] = StoredNone]
                 /\ xs' = [xs EXCEPT ![i + 1] = StoredNone]
                 /\ v_vec' = [v_vec EXCEPT ![i] = [j \in DOMAIN @ |-> StoredNone]]
            ELSE /\ us' = [us EXCEPT ![i] = optim_res.u]
                 /\ xs' = [xs EXCEPT ![i + 1] =
                             NextState(xs[i], solver_wrapper.deltas[i + 1], optim_res.u,
                                       K[i + 1])]
                 /\ v_vec' = [v_vec EXCEPT ![i] = optim_res.v]
       /\ solve_log' = Append(solve_log,
                              Call(i, "None", g_forward, xs[i], xs[i], K[i + 1][1],
                                   K[i + 1][2], optim_res))
  /\ i' = i + 1 /\ pc' = NextForward
  /\ UNCHANGED <<ctorVars, called_before, session, entry, args, X, K, x_upper, sd_vec, sdd_vec, ret>>

ParameterizationReturn ==
  /\ pc = "cp_close"
  /\ session' = close_solver(session)
  /\ sd_vec' = [k \in Stages |-> Sqrt(xs[k])]
  /\ sdd_vec' = us
  /\ ret' = "profile" /\ pc' = "idle"
  /\ UNCHANGED <<ctorVars, called_before, entry, args, i, X, K, x_upper, xs, us, v_vec, solve_log>>

\* ------------------------------------------------------------ specification
Next ==
  \/ CallFeasibleSets \/ FeasibleMin \/ FeasibleMax \/ FeasibleReturn
  \/ CallControllableSets \/ OneStepPropagate \/ OneStepUpper \/ OneStepLower
  \/ ControllableReturn
  \/ CallParameterization \/ ParameterizationInfeasible \/ ParameterizationForwardBegin
  \/ ParameterizationForward \/ ParameterizationReturn

Spec == Init /\ [][Next]_vars

\* ------------------------------------------------------------------ claims
\* compute_controllable_sets has handed its K back (to the caller, or to
\* compute_parameterization).
KReturned ==
  /\ entry \in {"compute_controllable_sets", "compute_parameterization"}
  /\ ret # "AssertionError"
  /\ pc \notin {"cs_step", "cs_lower", "cs_close"}

\* C1 (monotone propagation): in the K that compute_controllable_sets
\* returns, whenever K[i+1] holds a NaN, K[i] is NaN in both bounds, for
\* every i in 0..N-1 and whatever the stage solves returned.
C1_MonotonePropagation ==
  KReturned =>
    \A k \in 0..(N - 1) :
      (IsNaN(K[k + 1][1]) \/ IsNaN(K[k + 1][2])) => (IsNaN(K[k][1]) /\ IsNaN(K[k][2]))

\* A returned K whose stage 2 is a numeric interval, stage 1 empty after a
\* failed solve, and stage 0 empty by propagation.
C1_Witness ==
  /\ ret = "K" /\ N >= 2
  /\ ~IsNaN(K[2][1]) /\ ~IsNaN(K[2][2])
  /\ IsNaN(K[1][1]) /\ IsNaN(K[0][1]) /\ IsNaN(K[0][2])
  /\ \A j \in DOMAIN solve_log : solve_log[j].i # 0

\* C2 (session bracketing): every stage solve is issued with exactly one
\* session open, and whenever an entry point has returned (or raised), no
\* session is open.
C2_SessionBracketing ==
  /\ [][(Len(solve_log') = Len(solve_log) + 1) => (session = 1 /\ session' = 1)]_vars
  /\ [](pc = "idle" => session = 0)

\* compute_parameterization has returned early, reporting infeasibility,
\* after stage solves were issued, and no session is left open.
C2_Witness ==
  /\ pc = "idle" /\ ret = "infeasible" /\ Len(solve_log) > 0 /\ session = 0

\* C3 as claimed: in a returned profile every defined xs[i], xs[0]
\* included, lies within K[i].
C3_Original ==
  ret = "profile" =>
    \A k \in Stages : ~IsNaN(xs[k]) => (K[k][1] <= xs[k] /\ xs[k] <= K[k][2])

\* C3 (backward/forward consistency), amended: in a returned profile every
\* defined xs[i] for i in 1..N lies within K[i], and xs[0] = sd_start^2 lies
\* within K[0] widened by the tolerance SMALL on both sides.
C3_Consistency ==
  ret = "profile" =>
    /\ \A k \in 1..N : ~IsNaN(xs[k]) => (K[k][1] <= xs[k] /\ xs[k] <= K[k][2])
    /\ xs[0] = args.sd_start * args.sd_start
    /\ K[0][1] - SMALL <= xs[0] /\ xs[0] <= K[0][2] + SMALL

\* A returned profile over three stages whose start lies above K[0] by the
\* tolerance and whose later states are all defined.
C3_Witness ==
  /\ ret = "profile" /\ N = 3
  /\ xs[0] = K[0][2] + SMALL
  /\ \A k \in Stages : ~IsNaN(xs[k])

\* compute_parameterization was called with admissible arguments and is back.
ParameterizationDone ==
  /\ entry = "compute_parameterization" /\ pc = "idle"
  /\ args.sd_start >= 0 /\ args.sd_end >= 0

\* C4 (infeasible-start reporting): compute_parameterization returns
\* (None, None, None), raising nothing, whenever its K holds a NaN or
\* sd_start^2 lies below K[0].low or above K[0].high by more than SMALL; in
\* particular on the grid [0,1,2,3] with x in [0,4] at every stage and
\* sd_start = 3.
C4_InfeasibleStart ==
  ParameterizationDone =>
    LET x0 == args.sd_start * args.sd_start
        emptyK == \E k \in Stages : IsNaN(K[k][1]) \/ IsNaN(K[k][2])
    IN  /\ ret # "AssertionError"
        /\ (emptyK \/ x0 + SMALL < K[0][1] \/ K[0][2] + SMALL < x0) => ret = "infeasible"
        /\ ( /\ gridpoints = <<0, 1, 2, 3>>
             /\ \A k \in Stages : solver_wrapper.params[k + 1].xlo = 0
                                  /\ solver_wrapper.params[k + 1].xhi = 4
             /\ args.sd_start = 3 ) => ret = "infeasible"

\* Scenario B with every backward solve answered: K is numeric throughout,
\* x_start = 9 is above K[0].high + SMALL, and the triple is empty.
C4_Witness ==
  /\ ParameterizationDone /\ ret = "infeasible"
  /\ gridpoints = <<0, 1, 2, 3>> /\ args.sd_start = 3 /\ args.sd_end = 0
  /\ \A k \in Stages : solver_wrapper.params[k + 1].xhi = 4
  /\ \A k \in Stages : ~IsNaN(K[k][1]) /\ ~IsNaN(K[k][2])
  /\ K[0][2] + SMALL < 9

\* C5 (non-negativity): every interval of a returned X and of a returned K
\* has a lower bound that is empty (NaN) or >= 0.
C5_NonNegative ==
  /\ ret = "X" => \A k \in Stages : IsNaN(X[k][1]) \/ X[k][1] >= 0
  /\ KReturned => \A k \in Stages : IsNaN(K[k][1]) \/ K[k][1] >= 0

\* A returned K one of whose stages had a negative minimum, clamped to 0.
C5_Witness ==
  /\ ret = "K"
  /\ \E j \in DOMAIN solve_log :
       /\ solve_log[j].g = <<-1, CostScale>>
       /\ ~IsNaN(solve_log[j].x) /\ solve_log[j].x < 0
       /\ K[solve_log[j].i][1] = 0

\* C6 as claimed: in a returned profile, every stage whose forward solve
\* came back as the empty sentinel has us[i], xs[i+1] and v_vec[i] all
\* undefined, and the loop went on through every stage 0..N-1.
C6_ForwardMarking ==
  ret = "profile" =>
    /\ Len(solve_log) >= N
    /\ \A j \in DOMAIN solve_log :
         (solve_log[j].g = <<-CostScale, 0>> /\ IsNaN(solve_log[j].x)) =>
           LET st == solve_log[j].i
           IN  /\ IsNaN(us[st])
               /\ IsNaN(xs[st + 1])
               /\ \A m \in DOMAIN v_vec[st] : IsNaN(v_vec[st][m])

\* C7 (terminal pinning): from the moment compute_controllable_sets has
\* set it, through every stage solve and clamp, and in the K returned,
\* K[N] = [sdmin^2, sdmax^2] (with sdmin = sdmax = sd_end under
\* compute_parameterization).
C7_TerminalPinning ==
  (entry \in {"compute_controllable_sets", "compute_parameterization"}
     /\ (pc # "idle" \/ ret \in {"K", "infeasible", "profile"})) =>
    LET lo == IF entry = "compute_controllable_sets" THEN args.sdmin ELSE args.sd_end
        hi == IF entry = "compute_controllable_sets" THEN args.sdmax ELSE args.sd_end
    IN  K[N] = <<lo * lo, hi * hi>>

\* compute_controllable_sets(1, 2) is back after stage solves and a clamp,
\* with K[N] = [1, 4].
C7_Witness ==
  /\ ret = "K" /\ args.sdmin = 1 /\ args.sdmax = 2 /\ N >= 2
  /\ K[N] = <<1, 4>>
  /\ Len(solve_log) = 2 * N

\* C8 (backend selection): with a conic constraint in the list, construction
\* ends with a cvxpy or ecos wrapper attached (ecos when no name was given)
\* or with an error and none attached, and a name that is neither cvxpy nor
\* ecos is refused before any wrapper's constructor is entered; with no
\* conic constraint each of the four known names has its own wrapper's
\* constructor entered, and with no name given it is qpOASES's.
C8_BackendSelection ==
  ctor.status # "new" =>
    LET conic == \E k \in DOMAIN constraint_list : constraint_list[k].type = "CanonicalConic"
        lname == Lower(solver_name)
    IN  /\ ctor.status = "ok" => solver_wrapper.kind = ctor.entered
        /\ ctor.status # "ok" => solver_wrapper.kind = "none"
        /\ conic => solver_wrapper.kind \in {"cvxpy", "ecos", "none"}
        /\ (conic /\ solver_name = NotSupplied) => ctor.entered = "ecos"
        /\ (conic /\ solver_name # NotSupplied /\ lname \notin {"cvxpy", "ecos"}) =>
             (ctor.status = "AssertionError" /\ ctor.entered = "none")
        /\ (~conic /\ lname \in {"cvxpy", "qpoases", "ecos", "hotqpoases"}) =>
             ctor.entered = lname
        /\ (~conic /\ solver_name = NotSupplied) => ctor.entered = "qpoases"

\* A conic constraint with qpOASES named: AssertionError, no wrapper's
\* constructor entered, on a grid that is itself valid.
C8_Witness ==
  /\ ctor.status = "AssertionError" /\ ctor.entered = "none"
  /\ solver_name = "qpOASES"
  /\ \E k \in DOMAIN constraint_list : constraint_list[k].type = "CanonicalConic"
  /\ gridpoints = FullGrid /\ path_interval = <<0, MaxS>>

\* C9 (construction validation): construction succeeds only if the grid's
\* first and last samples equal the path interval's bounds and the grid is
\* strictly increasing, and then every delta_i > 0; a wrapper constructor
\* entered with any other grid raises before the constraints are asked for
\* their parameters.
C9_ConstructionValidation ==
  LET g == gridpoints
      valid == /\ Len(g) >= 1
               /\ path_interval[1] = g[1] /\ path_interval[2] = g[Len(g)]
               /\ \A k \in 1..(Len(g) - 1) : g[k] < g[k + 1]
  IN  /\ ctor.status = "ok" =>
           /\ valid /\ ctor.asked
           /\ solver_wrapper.N = Len(g) - 1
           /\ \A k \in 1..solver_wrapper.N :
                solver_wrapper.deltas[k] = g[k + 1] - g[k] /\ solver_wrapper.deltas[k] > 0
      /\ (ctor.status # "new" /\ ~valid) =>
           (ctor.status \in {"AssertionError", "IndexError"} /\ ~ctor.asked
            /\ solver_wrapper.params = <<>>)

\* A wrapper constructor entered with a grid whose ends match the path
\* interval and whose samples never decrease but repeat: AssertionError,
\* the constraints not asked.
C9_Witness ==
  /\ ctor.status = "AssertionError" /\ ctor.entered # "none" /\ ~ctor.asked
  /\ Len(gridpoints) >= 3
  /\ path_interval[1] = gridpoints[1] /\ path_interval[2] = gridpoints[Len(gridpoints)]
  /\ \A k \in 1..(Len(gridpoints) - 1) : gridpoints[k] <= gridpoints[k + 1]
  /\ \E k \in 1..(Len(gridpoints) - 1) : gridpoints[k] = gridpoints[k + 1]

\* C10 (feasible-set independence): when compute_feasible_sets returns, it
\* has issued exactly two solves per stage i in 0..N, in order, at index i,
\* least x then greatest x, all four bounds (-LARGE, LARGE); X[i] is the
\* first result clamped at 0 and the second result; and with x in [0,4] at
\* every stage and every solve answered, X[i] = [0,4] at every grid point.
C10_FeasibleIndependence ==
  ret = "X" =>
    /\ Len(solve_log) = 2 * (N + 1)
    /\ \A k \in Stages :
         LET lo == solve_log[2 * k + 1]
             hi == solve_log[2 * k + 2]
         IN  /\ lo.i = k /\ hi.i = k
             /\ lo.g = <<1, CostScale>> /\ hi.g = <<-1, -CostScale>>
             /\ \A c \in {lo, hi} :
                  /\ c.x_min = -LARGE /\ c.x_max = LARGE
                  /\ c.x_next_min = -LARGE /\ c.x_next_max = LARGE
             /\ X[k][1] = (IF ~IsNaN(lo.x) /\ lo.x < 0 THEN 0 ELSE lo.x)
             /\ X[k][2] = hi.x
    /\ ( /\ \A k \in Stages : solver_wrapper.params[k + 1].xlo = 0
                              /\ solver_wrapper.params[k + 1].xhi = 4
         /\ \A j \in DOMAIN solve_log : ~IsNaN(solve_log[j].x) ) =>
       \A k \in Stages : X[k] = <<0, 4>>

\* Scenario C: the grid [0,1,2,3], x in [0,4] at every stage, X = [0,4]
\* at all four grid points.
C10_Witness ==
  /\ ret = "X" /\ gridpoints = <<0, 1, 2, 3>>
  /\ \A k \in Stages : solver_wrapper.params[k + 1].xhi = 4
  /\ \A k \in Stages : X[k] = <<0, 4>>

\* Scenario A's oracle: the grid [0, 1, 2, 3], and at every stage x in [0, 4]
\* and u in [-1, 1].
ScenarioA ==
  /\ gridpoints = <<0, 1, 2, 3>>
  /\ \A k \in Stages : solver_wrapper.params[k + 1] = [xlo |-> 0, xhi |-> 4, ulo |-> -1, uhi |-> 1]

\* Every stage solve issued since the entry point was invoked was answered.
AllAnswered == \A j \in DOMAIN solve_log : ~IsNaN(solve_log[j].x)

\* compute_parameterization(0, 0) has returned.
RestToRestReturned ==
  /\ entry = "compute_parameterization" /\ pc = "idle" /\ ret # "none"
  /\ args.sd_start = 0 /\ args.sd_end = 0

\* C11 (scenario A): on the grid [0, 1, 2, 3] with x in [0, 4] and u in
\* [-1, 1] at every stage, compute_parameterization(0, 0), every solve
\* answered, returns a profile with no NaN in sd_vec, sdd_vec or v_vec, with
\* sd_vec[0] = sd_vec[3] = 0 and sd_vec[1] = sd_vec[2], the largest velocity
\* of the profile, above the velocity of the two ends.
C11_ScenarioA ==
  (ScenarioA /\ RestToRestReturned /\ AllAnswered) =>
    /\ ret = "profile"
    /\ \A k \in Stages : ~IsNaN(sd_vec[k])
    /\ \A k \in 0..(N - 1) : ~IsNaN(sdd_vec[k]) /\ \A j \in DOMAIN v_vec[k] : ~IsNaN(v_vec[k][j])
    /\ sd_vec[0] = 0 /\ sd_vec[3] = 0
    /\ sd_vec[1] = sd_vec[2]
    /\ sd_vec[1] > sd_vec[0]
    /\ \A k \in Stages : sd_vec[k] <= sd_vec[1]

\* Scenario A's profile: x = 0, 2, 2, 0, the velocity sqrt(2) at stages 1
\* and 2, full acceleration, coasting, full braking.
C11_Witness ==
  /\ ScenarioA /\ RestToRestReturned /\ AllAnswered
  /\ ret = "profile"
  /\ xs = [k \in Stages |-> IF k \in {1, 2} THEN 2 ELSE 0]
  /\ sd_vec[1] = 141 /\ sd_vec[2] = 141
  /\ sdd_vec[0] = UDen /\ sdd_vec[1] = 0 /\ sdd_vec[2] = -UDen

\* The logged solves of the backward recursion: the ones with x unbounded.
BackwardSolves == {j \in DOMAIN solve_log : solve_log[j].x_min = None}
BackwardSolvesAt(k) == {j \in BackwardSolves : solve_log[j].i = k}

\* Some K[m] above stage k is empty.
EmptyAbove(k) == \E m \in (k + 1)..N : AnyNaN(K[m])

\* C12 (no solve after emptiness): every solve of the backward recursion is
\* issued for a stage i with no empty K[j] above it, with x unbounded and
\* x_next bounded by K[i+1]; and in the K that compute_controllable_sets
\* returns, a stage below an empty K[j] has no solve at all and every other
\* stage exactly two.
C12_NoSolveAfterEmptiness ==
  /\ \A j \in BackwardSolves :
       LET call == solve_log[j]
       IN  /\ ~EmptyAbove(call.i)
           /\ call.x_max = None
           /\ call.x_next_min = K[call.i + 1][1] /\ call.x_next_max = K[call.i + 1][2]
  /\ KReturned =>
       \A k \in 0..(N - 1) :
         Cardinality(BackwardSolvesAt(k)) = IF EmptyAbove(k) THEN 0 ELSE 2

\* Three stages: stage 2 solved, stage 1 empty after a failed solve, stage 0
\* set empty with no solve issued.
C12_Witness ==
  /\ ret = "K" /\ N = 3
  /\ ~AnyNaN(K[2]) /\ AnyNaN(K[1]) /\ AnyNaN(K[0])
  /\ Cardinality(BackwardSolvesAt(2)) = 2 /\ Cardinality(BackwardSolvesAt(1)) = 2
  /\ BackwardSolvesAt(0) = {} /\ Len(solve_log) = 4

\* C13 (stage-index bounds): every stage index handed to
\* solve_stagewise_optim lies in 0..N; the backward recursion and the forward
\* pass only hand over 0..N-1, and a solve for stage N comes from
\* compute_feasible_sets alone.  Stated for the solves issued and for the
\* one about to be issued.
C13_StageIndexBounds ==
  /\ \A j \in DOMAIN solve_log :
       /\ 0 <= solve_log[j].i /\ solve_log[j].i <= N
       /\ entry # "compute_feasible_sets" => solve_log[j].i <= N - 1
  /\ pc \in {"fs_min", "fs_max"} => (0 <= i /\ i <= N)
  /\ pc \in {"cs_lower", "cp_forward"} => (0 <= i /\ i <= N - 1)
  /\ (pc = "cs_step" /\ ~AnyNaN(K[i + 1])) => (0 <= i /\ i <= N - 1)

\* compute_feasible_sets has swept three stages and the terminal point N.
C13_Witness ==
  /\ ret = "X" /\ N = 3 /\ Len(solve_log) = 2 * (N + 1)
  /\ \E j \in DOMAIN solve_log : solve_log[j].i = N
  /\ \E j \in DOMAIN solve_log : solve_log[j].i = 0

\* C14 (sessions never overlap): setup_solver is only called with no session
\* open; compute_parameterization reaches its tests with the backward
\* session closed and no forward solve issued, and when it reports the query
\* infeasible it returns from there with no session opened and no solve
\* issued beyond the backward recursion's.
C14_SessionsNeverOverlap ==
  /\ [][session' = session + 1 => session = 0]_vars
  /\ [][ret' = "infeasible" =>
         (pc = "cp_check" /\ session = 0 /\ session' = 0 /\ solve_log' = solve_log)]_vars
  /\ [](session \in {0, 1})
  /\ [](pc = "cp_check" => (session = 0 /\ BackwardSolves = DOMAIN solve_log))
  /\ [](pc \in {"cp_forward", "cp_close"} => session = 1)

\* Three stages, every K[i] numeric, the start velocity outside K[0]: the
\* six backward solves and nothing more.
C14_Witness ==
  /\ entry = "compute_parameterization" /\ pc = "idle" /\ ret = "infeasible"
  /\ N = 3 /\ ~AnyNaNArr(K)
  /\ Len(solve_log) = 2 * N /\ BackwardSolves = DOMAIN solve_log
  /\ session = 0

\* Both bounds are NaN, or neither is.
AllOrNothing(iv) == IsNaN(iv[1]) <=> IsNaN(iv[2])

\* C15 (all-or-nothing emptiness): every X[i] that compute_feasible_sets
\* returns and every K[i] that compute_controllable_sets returns has both
\* bounds numeric or both NaN, whichever of the stage's solves failed.
C15_AllOrNothing ==
  /\ ret = "X" => \A k \in Stages : AllOrNothing(X[k])
  /\ KReturned => \A k \in Stages : AllOrNothing(K[k])

\* A pair with no NaN in it has its bounds in order.
WellOrdered(iv) == ~AnyNaN(iv) => iv[1] <= iv[2]

\* C16 (well-ordered intervals): every X[i] that compute_feasible_sets
\* returns and every K[i] that compute_controllable_sets returns, when it
\* holds no NaN, has low <= high after the clamp, whatever minimum and
\* maximum the stage solves returned.
C16_WellOrderedIntervals ==
  /\ ret = "X" => \A k \in Stages : WellOrdered(X[k])
  /\ KReturned => \A k \in Stages : WellOrdered(K[k])

\* A deterministic oracle's answer to a stage solve: the optimum, and the NaN
\* vector only when the stage problem is infeasible.
Answer(stage, g, x_min, x_max, x_next_min, x_next_max) ==
  LET answers == solve_stagewise_optim(solver_wrapper, stage, g, x_min, x_max,
                                       x_next_min, x_next_max)
                   \ {NaNVec(solver_wrapper.nV)}
  IN  IF answers = {} THEN NaNVec(solver_wrapper.nV) ELSE CHOOSE r \in answers : TRUE

\* Every solve issued since the entry point was invoked got that answer: the
\* NaN vector came back for infeasible stage problems only.
Deterministic ==
  \A j \in DOMAIN solve_log :
    LET call == solve_log[j]
    IN  IsNaN(call.x) =>
          FeasiblePoints(solver_wrapper, call.i, call.x_min, call.x_max,
                         call.x_next_min, call.x_next_max) = {}

\* compute_feasible_sets from the oracle alone.
XFromScratch ==
  [k \in Stages |->
     ClampLow(<<Answer(k, g_lower, -LARGE, LARGE, -LARGE, LARGE).x,
                Answer(k, Neg(g_lower), -LARGE, LARGE, -LARGE, LARGE).x>>)]

\* compute_controllable_sets(sdmin, sdmax) from its arguments and the oracle
\* alone: the loop from stage k down to 0 over the array KK.
RECURSIVE KDownFrom(_, _)
KDownFrom(k, KK) ==
  IF k < 0 THEN KK
  ELSE LET K_next == KK[k + 1]
           res == IF OneStepEmpty(k, K_next) THEN EmptySet
                  ELSE <<Answer(k, Neg(g_upper), None, None, K_next[1], K_next[2]).x,
                         Answer(k, g_upper, None, None, K_next[1], K_next[2]).x>>
       IN  KDownFrom(k - 1, [KK EXCEPT ![k] = ClampLow(res)])

KFromScratch(sdmin, sdmax) ==
  KDownFrom(N - 1, [Zeros2 EXCEPT ![N] = TerminalSet(sdmin, sdmax)])

\* The forward pass from x_start, K and the oracle alone: the loop from stage
\* k up to N - 1 over the arrays P.xs and P.us.
RECURSIVE ForwardUpFrom(_, _, _)
ForwardUpFrom(k, KK, P) ==
  IF k > N - 1 THEN P
  ELSE LET u == Answer(k, g_forward, P.xs[k], P.xs[k], KK[k + 1][1], KK[k + 1][2]).u
           x_next == NextState(P.xs[k], solver_wrapper.deltas[k + 1], u, KK[k + 1])
       IN  ForwardUpFrom(k + 1, KK, [xs |-> [P.xs EXCEPT ![k + 1] = x_next],
                                     us |-> [P.us EXCEPT ![k] = u]])

ProfileFromScratch(KK) ==
  ForwardUpFrom(0, KK, [xs |-> [k \in Stages |-> IF k = 0 THEN x_start ELSE 0],
                        us |-> [k \in 0..(N - 1) |-> 0]])

\* C17 (oracle state read-only): no step of any entry point changes the
\* oracle's grid, deltas, N, nV or parameters; and against a deterministic
\* oracle what an entry point returns is what its arguments and the oracle
\* give when X, K and the profile are built from scratch, whether or not
\* other calls came before it.
C17_OracleReadOnly ==
  /\ [][solver_wrapper' = solver_wrapper]_vars
  /\ []((pc = "idle" /\ Deterministic) =>
          /\ ret = "X" => X = XFromScratch
          /\ ret = "K" => K = KFromScratch(args.sdmin, args.sdmax)
          /\ ret \in {"profile", "infeasible"} =>
               LET KK == KFromScratch(args.sd_end, args.sd_end)
               IN  /\ K = KK
                   /\ ret = "infeasible" <=> ReportsInfeasible(KK, x_start)
                   /\ ret = "profile" =>
                        LET P == ProfileFromScratch(KK)
                        IN  /\ xs = P.xs
                            /\ sd_vec = [k \in Stages |-> Sqrt(P.xs[k])]
                            /\ sdd_vec = P.us)

\* A profile over three stages returned by a call that was not the first
\* one made on the engine, every solve answered deterministically.
C17_Witness ==
  /\ called_before /\ pc = "idle" /\ ret = "profile" /\ Deterministic
  /\ N = 3 /\ Len(solve_log) = 3 * N
  /\ \A k \in Stages : ~IsNaN(sd_vec[k])

=============================================================================
